---- MODULE Spec2Model ----
(***************************************************************************)
(* Model of the AI event tracker: the event store (crud.py, database.py),  *)
(* the crawl cycle and the query endpoint (app.py), the response parser    *)
(* (app.py) and the page crawler with its URL filter (crawl_webpage.py).   *)
(***************************************************************************)
EXTENDS Integers, Sequences, FiniteSets, TLC

VARIABLES
    \* ---- event store and save_events sessions (crud.py, database.py)
    store,      \* committed rows of table "events"
    pc,         \* per session: position of its save_events call
    batch,      \* per session: the `events` argument
    idx,        \* per session: 1-based position of the for loop in `events`
    pending,    \* per session: objects added with session.add, not yet flushed
    flushed,    \* per session: rows INSERTed in the open transaction
    before,     \* per session: the committed rows when the call began
    lock,       \* SQLite write lock: 0, or the session holding it
    overlapped, \* a save_events call began while another one was running
    \* ---- crawl_all (app.py)
    cpc,        \* position of the crawl cycle
    seedIdx,    \* 1-based position of the for loop in START_URLS
    visited,    \* the seeds crawl_website was awaited for, in order
    outcomes,   \* what happened at each visited seed
    all_events, \* crawl_all's all_events
    errors,     \* crawl_all's errors
    summary,    \* the returned JSON, None before
    \* ---- search_events (app.py)
    query,      \* the last search_events call: what it loaded, did and replied
    \* ---- _should_include_page (crawl_webpage.py)
    url,        \* the argument
    included,   \* the returned value, None before the call
    \* ---- crawl_site (crawl_webpage.py)
    results,    \* what crawler.arun returned: a sequence of page results
    decisions,  \* per page, what the loop did with it; None before the call
    pages_content, \* the kept pages, joined into the returned text; None before
    \* ---- parse_openai_response (app.py)
    text,       \* the response text: its lines, each a sequence of tokens
    source_url, \* the source_url argument
    parsed      \* the returned events, None before the call

vars == <<store, pc, batch, idx, pending, flushed, before, lock, overlapped,
          cpc, seedIdx, visited, outcomes, all_events, errors, summary,
          query, url, included, results, decisions, pages_content, text, source_url, parsed>>

storeVars  == <<store, pc, batch, idx, pending, flushed, before, lock, overlapped>>
crawlVars  == <<cpc, seedIdx, visited, outcomes, all_events, errors, summary>>
filterVars == <<url, included>>
siteVars   == <<results, decisions, pages_content>>
parseVars  == <<text, source_url, parsed>>

\* Python's None and an optional value holding x.
None == {}
Some(x) == {x}
\* SQL NULL / a missing dictionary value, among strings.
NULL == "NULL"

\* ---- bounds
NumSeeds == 2
MaxBatch == 2
NumSessions == 2
MaxRows == 3

Sessions == 1..NumSessions

Max(S) == CHOOSE m \in S : \A x \in S : x <= m

(***************************************************************************)
(* Event store                                                             *)
(***************************************************************************)
START_URLS == [i \in 1..NumSeeds |-> i]

Titles == {"A", "B"}
\* The dictionaries a caller can pass: parse_openai_response only builds
\* events with a non-empty title; a direct caller can also pass title None.
EventDicts == [title : Titles \cup {NULL}, url : 1..2,
               location : {"unbekannt"}, date : {NULL}]

Batches == UNION {[1..n -> EventDicts] : n \in 1..MaxBatch}

\* The batches of the overlapping calls: one event of one page, once or more.
ConcBatches == {b \in Batches : \A i \in 1..Len(b) : b[i].url = 1 /\ b[i].title = "A"}

SameKey(r, title, url_) == r.title = title /\ r.source_url = url_

HasDuplicates(rows) ==
    \E r1, r2 \in rows : r1.id # r2.id /\ SameKey(r1, r2.title, r2.source_url)

\* sessionmaker(bind=engine) keeps autoflush on: a query first flushes the
\* objects added to the session, so the SELECT reads them too.
NoAutoflush == FALSE
Autoflush == TRUE

\* INSERT of one object: the rowid is one more than the largest in the table.
NewRow(view, obj) ==
    [id |-> IF view = {} THEN 1 ELSE Max({r.id : r \in view}) + 1,
     title |-> obj.title, date |-> obj.date,
     location |-> obj.location, source_url |-> obj.url]

\* session.flush(): INSERT the pending objects in order; the result is the set
\* of rows of the transaction afterwards.
RECURSIVE FlushRows(_, _, _)
FlushRows(committed, mine, objs) ==
    IF objs = <<>> THEN mine
    ELSE FlushRows(committed,
                   mine \cup {NewRow(committed \cup mine, Head(objs))},
                   Tail(objs))

\* title is nullable=False: INSERTing an object without title raises.
ViolatesConstraint(objs) == \E i \in 1..Len(objs) : objs[i].title = NULL

\* A flush writes, so it needs the write lock unless nothing is pending.
CanWrite(s) == lock \in {0, s}

\* filter_by(title=..., source_url=...).first()
Existing(view, event_data) ==
    \E r \in view : SameKey(r, event_data.title, event_data.url)

AlwaysInsert(existing) == TRUE
ShouldInsert(existing) == ~existing

\* What the table holds after session.rollback().
RolledBackKeepsFlushed(s) == store \cup flushed[s]
RolledBack(s) == store

\* No handler is running: the application runs one operation at a time.
Idle == cpc = "idle" /\ query = None /\ \A s \in Sessions : pc[s] = "idle"

\* Sessions are interchangeable: a call takes the first one not in use.
FirstFree(s) == pc[s] = "idle" /\ \A o \in Sessions : o < s => pc[o] # "idle"

\* session = SessionLocal(); the call starts.
Begin(s, events) ==
    /\ FirstFree(s)
    /\ pc' = [pc EXCEPT ![s] = "loop"]
    /\ batch' = [batch EXCEPT ![s] = events]
    /\ idx' = [idx EXCEPT ![s] = 1]
    /\ pending' = [pending EXCEPT ![s] = <<>>]
    /\ flushed' = [flushed EXCEPT ![s] = {}]
    /\ before' = [before EXCEPT ![s] = store]
    /\ overlapped' = (overlapped \/ \E o \in Sessions \ {s} : pc[o] = "loop")
    /\ UNCHANGED <<store, lock>>

\* except: session.rollback(); raise -- finally: session.close()
Raise(s) ==
    /\ pc' = [pc EXCEPT ![s] = "raised"]
    /\ store' = RolledBack(s)
    /\ flushed' = [flushed EXCEPT ![s] = {}]
    /\ pending' = [pending EXCEPT ![s] = <<>>]
    /\ lock' = IF lock = s THEN 0 ELSE lock
    /\ UNCHANGED <<batch, idx, before, overlapped>>

\* What the query of the loop flushes first.
ToFlush(s) == IF Autoflush THEN pending[s] ELSE <<>>

\* One iteration of the for loop: the query autoflushes what is pending, looks
\* the event up, and adds it when it is not found.
save_events_iter(s) ==
    /\ pc[s] = "loop"
    /\ idx[s] <= Len(batch[s])
    /\ ToFlush(s) # <<>> => CanWrite(s)
    /\ IF ViolatesConstraint(ToFlush(s))
       THEN Raise(s)
       ELSE LET rows == FlushRows(store, flushed[s], ToFlush(s))
                event_data == batch[s][idx[s]]
                rest == IF Autoflush THEN <<>> ELSE pending[s]
            IN /\ flushed' = [flushed EXCEPT ![s] = rows]
               /\ lock' = IF ToFlush(s) # <<>> THEN s ELSE lock
               /\ pending' = [pending EXCEPT ![s] =
                     IF ShouldInsert(Existing(store \cup rows, event_data))
                     THEN Append(rest, event_data) ELSE rest]
               /\ idx' = [idx EXCEPT ![s] = idx[s] + 1]
               /\ UNCHANGED <<store, pc, batch, before, overlapped>>

\* session.commit() after the loop: flush, then COMMIT.
save_events_commit(s) ==
    /\ pc[s] = "loop"
    /\ idx[s] > Len(batch[s])
    /\ pending[s] # <<>> => CanWrite(s)
    /\ IF ViolatesConstraint(pending[s])
       THEN Raise(s)
       ELSE /\ store' = store \cup FlushRows(store, flushed[s], pending[s])
            /\ flushed' = [flushed EXCEPT ![s] = {}]
            /\ pending' = [pending EXCEPT ![s] = <<>>]
            /\ lock' = IF lock = s THEN 0 ELSE lock
            /\ pc' = [pc EXCEPT ![s] = "returned"]
            /\ UNCHANGED <<batch, idx, before, overlapped>>

\* Any statement of the try block raises: the lookup, the INSERT of a flush
\* (I/O error, "database is locked" after the busy timeout) or the COMMIT.
save_events_fail(s) ==
    /\ pc[s] = "loop"
    /\ Raise(s)

\* The caller has the result of the call; the session is gone.
Forget(s) ==
    /\ pc' = [pc EXCEPT ![s] = "idle"]
    /\ batch' = [batch EXCEPT ![s] = <<>>]
    /\ idx' = [idx EXCEPT ![s] = 1]
    /\ before' = [before EXCEPT ![s] = {}]
    /\ UNCHANGED <<store, pending, flushed, lock, overlapped>>

\* clear_events(): DELETE every row, commit.
clear_events ==
    /\ lock = 0
    /\ store' = {}
    /\ overlapped' = (overlapped /\ \E s \in Sessions : pc[s] = "loop")
    /\ UNCHANGED <<pc, batch, idx, pending, flushed, before, lock>>

\* load_events(): every row, ORDER BY date (NULL first), then by rowid.
RowBefore(r1, r2) ==
    LET k(r) == IF r.date = NULL THEN 0 ELSE 1
    IN k(r1) < k(r2) \/ (k(r1) = k(r2) /\ r1.id < r2.id)

RECURSIVE OrderRows(_)
OrderRows(rows) ==
    IF rows = {} THEN <<>>
    ELSE LET first == CHOOSE r \in rows : \A o \in rows \ {r} : RowBefore(r, o)
         IN <<first>> \o OrderRows(rows \ {first})

load_events == OrderRows(store)

(***************************************************************************)
(* search_events (POST /api)                                               *)
(***************************************************************************)
GUIDANCE == "No events in database. Please click 'Refresh Events' to crawl first."

NeverEmpty(events) == FALSE
NoEvents(events) == events = <<>>

\* The whole handler: load, the early return, else one request to the
\* text-generation API, which answers or raises.
search_events ==
    LET events == load_events
    IN IF NoEvents(events)
       THEN query' = Some([loaded |-> Len(events), requested |-> FALSE,
                           reply |-> GUIDANCE])
       ELSE \E answer \in {"model reply", "raised"} :
               query' = Some([loaded |-> Len(events), requested |-> TRUE,
                              reply |-> answer])

(***************************************************************************)
(* crawl_all (GET /crawl)                                                  *)
(***************************************************************************)
MinContent == 100
max_chars == 20000

\* What crawl_website can give for a seed: an exception, or text of a length.
CrawlResults ==
    {[raised |-> TRUE, len |-> 0]}
    \cup {[raised |-> FALSE, len |-> n] : n \in {0, MinContent - 1, MinContent, max_chars + 1}}

Event(title, url_) ==
    [title |-> title, url |-> url_, location |-> "unbekannt", date |-> NULL]

\* What extract_events_with_openai can give: [] after a failed request
\* ("error"), or the events parsed from the response.
Extractions(url_) ==
    { [kind |-> "error", events |-> <<>>],
      [kind |-> "ok", events |-> <<>>],
      [kind |-> "ok", events |-> <<Event("A", url_)>>],
      [kind |-> "ok", events |-> <<Event("A", url_), Event("A", url_)>>] }

\* not html_content or len(html_content) < 100
Insufficient(html_content) == html_content.len = 0 \/ html_content.len < MinContent

\* errors if errors else None
ErrorsAsList(errs) == Some(errs)
ErrorsOrNone(errs) == IF errs # <<>> THEN Some(errs) ELSE None

Summary ==
    [message |-> "Crawling completed", events_found |-> Len(all_events),
     urls_crawled |-> NumSeeds, errors |-> ErrorsOrNone(errors)]

crawl_all_begin ==
    /\ Idle
    /\ cpc' = "loop"
    /\ seedIdx' = 1
    /\ visited' = <<>>
    /\ outcomes' = <<>>
    /\ all_events' = <<>>
    /\ errors' = <<>>
    /\ summary' = None

\* One iteration of the for loop over START_URLS.
crawl_all_seed ==
    /\ cpc = "loop"
    /\ seedIdx <= NumSeeds
    /\ LET seed == START_URLS[seedIdx]
       IN /\ visited' = Append(visited, seed)
          /\ seedIdx' = seedIdx + 1
          /\ \E html_content \in CrawlResults :
               IF html_content.raised
               THEN /\ errors' = Append(errors, [url |-> seed, msg |-> "exception"])
                    /\ outcomes' = Append(outcomes, "crawl_error")
                    /\ UNCHANGED all_events
               ELSE IF Insufficient(html_content)
               THEN /\ errors' = Append(errors,
                                       [url |-> seed, msg |-> "Insufficient content"])
                    /\ outcomes' = Append(outcomes, "insufficient")
                    /\ UNCHANGED all_events
               ELSE \E x \in Extractions(seed) :
                    /\ all_events' = all_events \o x.events
                    /\ outcomes' = Append(outcomes,
                          IF x.kind = "error" THEN "extract_error"
                          ELSE IF x.events = <<>> THEN "no_events" ELSE "success")
                    /\ UNCHANGED errors
    /\ UNCHANGED <<cpc, summary>>

\* After the loop: save_events(all_events) when there is something to save,
\* else the summary at once.
crawl_all_finish ==
    /\ cpc = "loop"
    /\ seedIdx > NumSeeds
    /\ IF all_events # <<>>
       THEN /\ \E s \in Sessions : Begin(s, all_events)
            /\ cpc' = "saving"
            /\ UNCHANGED summary
       ELSE /\ cpc' = "returned"
            /\ summary' = Some(Summary)
            /\ UNCHANGED storeVars
    /\ UNCHANGED <<seedIdx, visited, outcomes, all_events, errors>>

\* save_events returned: the summary is returned.
crawl_all_saved ==
    /\ cpc = "saving"
    /\ \E s \in Sessions : pc[s] = "returned" /\ Forget(s)
    /\ cpc' = "returned"
    /\ summary' = Some(Summary)
    /\ UNCHANGED <<seedIdx, visited, outcomes, all_events, errors>>

\* save_events raised: nothing catches it, the handler ends with the exception.
crawl_all_raised ==
    /\ cpc = "saving"
    /\ \E s \in Sessions : pc[s] = "raised" /\ Forget(s)
    /\ cpc' = "raised"
    /\ UNCHANGED <<seedIdx, visited, outcomes, all_events, errors, summary>>

\* The response is delivered.
crawl_all_done ==
    /\ cpc \in {"returned", "raised"}
    /\ cpc' = "idle"
    /\ seedIdx' = 1
    /\ visited' = <<>>
    /\ outcomes' = <<>>
    /\ all_events' = <<>>
    /\ errors' = <<>>
    /\ summary' = None

(***************************************************************************)
(* The application, one operation at a time                                *)
(***************************************************************************)
InitStore ==
    /\ store = {}
    /\ pc = [s \in Sessions |-> "idle"]
    /\ batch = [s \in Sessions |-> <<>>]
    /\ idx = [s \in Sessions |-> 1]
    /\ pending = [s \in Sessions |-> <<>>]
    /\ flushed = [s \in Sessions |-> {}]
    /\ before = [s \in Sessions |-> {}]
    /\ lock = 0
    /\ overlapped = FALSE

InitCrawl ==
    /\ cpc = "idle"
    /\ seedIdx = 1
    /\ visited = <<>>
    /\ outcomes = <<>>
    /\ all_events = <<>>
    /\ errors = <<>>
    /\ summary = None

InitFilter == url = <<>> /\ included = None
InitSite == results = <<>> /\ decisions = None /\ pages_content = None
InitParse == text = <<>> /\ source_url = "" /\ parsed = None

Init == InitStore /\ InitCrawl /\ query = None /\ InitFilter /\ InitSite /\ InitParse

pureVars == <<filterVars, siteVars, parseVars>>

\* A direct call of save_events.
SaveBegin ==
    /\ Idle
    /\ \E s \in Sessions, events \in Batches : Begin(s, events)
    /\ UNCHANGED <<crawlVars, query, pureVars>>

SaveIter ==
    /\ \E s \in Sessions : save_events_iter(s)
    /\ UNCHANGED <<crawlVars, query, pureVars>>

SaveCommit ==
    /\ \E s \in Sessions : save_events_commit(s)
    /\ UNCHANGED <<crawlVars, query, pureVars>>

SaveFail ==
    /\ \E s \in Sessions : save_events_fail(s)
    /\ UNCHANGED <<crawlVars, query, pureVars>>

SaveReturn ==
    /\ cpc = "idle"
    /\ \E s \in Sessions : pc[s] \in {"returned", "raised"} /\ Forget(s)
    /\ UNCHANGED <<crawlVars, query, pureVars>>

Clear ==
    /\ Idle
    /\ clear_events
    /\ UNCHANGED <<crawlVars, query, pureVars>>

Search ==
    /\ Idle
    /\ search_events
    /\ UNCHANGED <<storeVars, crawlVars, pureVars>>

\* The reply is delivered.
SearchDone ==
    /\ query # None
    /\ query' = None
    /\ UNCHANGED <<storeVars, crawlVars, pureVars>>

CrawlBegin == crawl_all_begin /\ UNCHANGED <<storeVars, query, pureVars>>
CrawlSeed == crawl_all_seed /\ UNCHANGED <<storeVars, query, pureVars>>
CrawlFinish == crawl_all_finish /\ UNCHANGED <<query, pureVars>>
CrawlSaved == crawl_all_saved /\ UNCHANGED <<query, pureVars>>
CrawlRaised == crawl_all_raised /\ UNCHANGED <<query, pureVars>>
CrawlDone == crawl_all_done /\ UNCHANGED <<storeVars, query, pureVars>>

Next ==
    \/ SaveBegin
    \/ SaveIter
    \/ SaveCommit
    \/ SaveFail
    \/ SaveReturn
    \/ Clear
    \/ Search
    \/ SearchDone
    \/ CrawlBegin
    \/ CrawlSeed
    \/ CrawlFinish
    \/ CrawlSaved
    \/ CrawlRaised
    \/ CrawlDone

Spec == Init /\ [][Next]_vars

(***************************************************************************)
(* Overlapping save_events calls (several workers on one database)         *)
(***************************************************************************)
\* The rows the table can come to hold: those it holds and one for each event
\* of a call that is running.
RECURSIVE Running(_)
Running(ss) ==
    IF ss = {} THEN 0
    ELSE LET s == CHOOSE x \in ss : TRUE
         IN (IF pc[s] = "loop" THEN Len(batch[s]) ELSE 0) + Running(ss \ {s})

ConcBegin ==
    /\ \E s \in Sessions, events \in ConcBatches :
          /\ Cardinality(store) + Running(Sessions) + Len(events) <= MaxRows
          /\ Begin(s, events)
    /\ UNCHANGED <<crawlVars, query, pureVars>>

ConcClear ==
    /\ clear_events
    /\ UNCHANGED <<crawlVars, query, pureVars>>

NextConc ==
    \/ ConcBegin
    \/ SaveIter
    \/ SaveCommit
    \/ SaveFail
    \/ SaveReturn
    \/ ConcClear

SpecConc == Init /\ [][NextConc]_vars

(***************************************************************************)
(* _should_include_page (crawl_webpage.py)                                 *)
(* Text is a sequence of one-character strings.                            *)
(***************************************************************************)
UpperLetters == <<"A", "B", "C", "D", "E", "F", "G", "H", "I", "J", "K", "L", "M", "N", "O", "P", "Q", "R", "S", "T", "U", "V", "W", "X", "Y", "Z">>
LowerLetters == <<"a", "b", "c", "d", "e", "f", "g", "h", "i", "j", "k", "l", "m", "n", "o", "p", "q", "r", "s", "t", "u", "v", "w", "x", "y", "z">>

\* str.lower(), character by character.
LowerChar(c) ==
    IF \E i \in 1..Len(UpperLetters) : UpperLetters[i] = c
    THEN LowerLetters[CHOOSE i \in 1..Len(UpperLetters) : UpperLetters[i] = c]
    ELSE c

Lower(s) == [i \in 1..Len(s) |-> LowerChar(s[i])]

denied_patterns == <<
    <<"/", "i", "m", "p", "r", "e", "s", "s", "u", "m">>,
    <<"/", "k", "o", "n", "t", "a", "k", "t">>,
    <<"/", "d", "a", "t", "e", "n", "s", "c", "h", "u", "t", "z">>,
    <<"/", "a", "g", "b">>,
    <<"/", "n", "e", "w", "s", "l", "e", "t", "t", "e", "r">>,
    <<"/", "l", "o", "g", "i", "n">>,
    <<"/", "s", "u", "c", "h", "e">>,
    <<"/", "s", "e", "a", "r", "c", "h">>,
    <<"/", "v", "e", "r", "m", "i", "e", "t", "u", "n", "g">>,
    <<"/", "g", "r", "u", "n", "d", "s", "t", "u", "e", "c", "k">>,
    <<"/", "a", "u", "s", "s", "c", "h", "r", "e", "i", "b", "u", "n", "g">>,
    <<"/", "v", "e", "r", "w", "a", "l", "t", "u", "n", "g">>,
    <<"/", "r", "a", "t", "h", "a", "u", "s">>,
    <<"/", "s", "a", "t", "z", "u", "n", "g">>,
    <<"/", "f", "o", "r", "m", "u", "l", "a", "r", "e">>,
    <<"/", "b", "u", "e", "r", "g", "e", "r", "s", "e", "r", "v", "i", "c", "e">>,
    <<"/", "k", "o", "n", "t", "a", "k", "t", "f", "o", "r", "m", "u", "l", "a", "r">>,
    <<"/", "k", "o", "n", "t", "a", "k", "t", "-">> >>

allowed_signals == <<
    <<"/", "v", "e", "r", "a", "n", "s", "t", "a", "l", "t">>,
    <<"/", "e", "v", "e", "n", "t">>,
    <<"/", "k", "o", "n", "z", "e", "r", "t">>,
    <<"/", "m", "a", "r", "k", "t">>,
    <<"/", "m", "e", "s", "s", "e">>,
    <<"/", "t", "h", "e", "a", "t", "e", "r">>,
    <<"/", "f", "e", "s", "t", "i", "v", "a", "l">> >>

\* re.search(p, s) for a pattern without metacharacters: p occurs in s.
ReSearch(p, s) ==
    \E i \in 1..(Len(s) - Len(p) + 1) : SubSeq(s, i, i + Len(p) - 1) = p

\* for p in patterns: if re.search(p, s): ... -- whether the loop finds one,
\* starting at pattern k.
RECURSIVE AnySearch(_, _, _)
AnySearch(patterns, k, s) ==
    IF k > Len(patterns) THEN FALSE
    ELSE IF ReSearch(patterns[k], s) THEN TRUE
    ELSE AnySearch(patterns, k + 1, s)

AllowBeforeDeny(u) ==
    IF u = <<>> THEN FALSE
    ELSE IF AnySearch(allowed_signals, 1, Lower(u)) THEN TRUE
    ELSE FALSE

should_include_page(u) ==
    IF u = <<>> THEN FALSE
    ELSE LET l == Lower(u)
         IN IF AnySearch(denied_patterns, 1, l) THEN FALSE
            ELSE IF AnySearch(allowed_signals, 1, l) THEN TRUE
            ELSE FALSE

\* ---- the URLs checked: a site, then up to MaxChunks path pieces
MaxChunks == 2

Site == <<"h", "t", "t", "p", "s", ":", "/", "/", "x", ".", "d", "e">>

Chunks == {
    <<"/", "v", "e", "r", "a", "n", "s", "t", "a", "l", "t", "u", "n", "g", "e", "n">>,
    <<"/", "E", "v", "e", "n", "t">>,
    <<"/", "m", "a", "r", "k", "t">>,
    <<"/", "i", "m", "p", "r", "e", "s", "s", "u", "m">>,
    <<"/", "K", "o", "n", "t", "a", "k", "t">>,
    <<"/", "a", "g", "b">>,
    <<"/", "n", "e", "w", "s">>,
    <<"-">>,
    <<"e", "v", "e", "n", "t">> }

RECURSIVE Concat(_)
Concat(ss) == IF ss = <<>> THEN <<>> ELSE Head(ss) \o Concat(Tail(ss))

FilterUrls ==
    {<<>>} \cup {Site \o Concat(cs) : cs \in UNION {[1..n -> Chunks] : n \in 0..MaxChunks}}

InitFilterSpec ==
    /\ InitStore /\ InitCrawl /\ query = None /\ InitSite /\ InitParse
    /\ url \in FilterUrls
    /\ included = None

CheckUrl ==
    /\ included = None
    /\ included' = Some(should_include_page(url))
    /\ UNCHANGED <<url, storeVars, crawlVars, query, siteVars, parseVars>>

NextFilter == CheckUrl

SpecFilter == InitFilterSpec /\ [][NextFilter]_vars

\* p occurs in s: s is some text, then p, then some text.
Occurs(p, s) ==
    \E a, b \in 0..Len(s) :
       /\ a + Len(p) + b = Len(s)
       /\ \A k \in 1..Len(p) : s[a + k] = p[k]

DenyHit(u) == \E k \in DOMAIN denied_patterns : Occurs(denied_patterns[k], Lower(u))
AllowHit(u) == \E k \in DOMAIN allowed_signals : Occurs(allowed_signals[k], Lower(u))

\* C4: the filter accepts a URL exactly when it is non-empty, its lower-cased
\* form matches no deny pattern and it matches an allow pattern; a URL
\* matching both lists is rejected and so is a URL matching neither.
C4_FilterDecision ==
    \A r \in included :
       /\ r <=> (url # <<>> /\ ~DenyHit(url) /\ AllowHit(url))
       /\ (DenyHit(url) /\ AllowHit(url)) => ~r
       /\ (~DenyHit(url) /\ ~AllowHit(url)) => ~r

\* A URL with an allow and a deny pattern, in capitals, was rejected.
C4_Witness ==
    /\ included = Some(FALSE)
    /\ DenyHit(url) /\ AllowHit(url)
    /\ url # Lower(url)

(***************************************************************************)
(* crawl_site (crawl_webpage.py)                                           *)
(* A page result is an object with attributes or a dictionary with keys:   *)
(* [kind, f], f the attributes or keys it has, each with its text. None    *)
(* and "" are both the empty text: the code only tests them for truth.     *)
(***************************************************************************)
MaxPages == 2

WhiteSpace == {" ", "\n", "\t"}

\* str.strip()
RECURSIVE LStrip(_)
LStrip(s) == IF s # <<>> /\ Head(s) \in WhiteSpace THEN LStrip(Tail(s)) ELSE s

RECURSIVE RStrip(_)
RStrip(s) ==
    IF s # <<>> /\ s[Len(s)] \in WhiteSpace THEN RStrip(SubSeq(s, 1, Len(s) - 1)) ELSE s

Strip(s) == RStrip(LStrip(s))

HasAttr(result, name) == result.kind = "obj" /\ name \in DOMAIN result.f
IsDict(result) == result.kind = "dict"
\* result.get(key): the value, or None
DictGet(result, key) == IF key \in DOMAIN result.f THEN result.f[key] ELSE <<>>
\* getattr(result, name, None)
GetAttr(result, name) == IF HasAttr(result, name) THEN result.f[name] ELSE <<>>

Digits == <<"0", "1", "2", "3", "4", "5", "6", "7", "8", "9">>
PagePlaceholder(i) == <<"p", "a", "g", "e", "_">> \o <<Digits[i + 1]>>

\* page_url = (getattr(result, "url", None) or result.get("url")
\*             if isinstance(result, dict) else None or f"page_{idx}")
\* The conditional expression binds weakest: the first operand of it is the
\* whole "getattr(...) or result.get(...)", its else branch the placeholder.
PageUrl(i, result) ==
    IF IsDict(result)
    THEN (IF GetAttr(result, "url") # <<>> THEN GetAttr(result, "url")
          ELSE DictGet(result, "url"))
    ELSE PagePlaceholder(i)

ContentKeys == <<"extracted_content", "content", "markdown", "text">>

\* for key in (...): if key in result and result[key]: content = result[key]; break
RECURSIVE FirstKey(_, _)
FirstKey(result, k) ==
    IF k > Len(ContentKeys) THEN <<>>
    ELSE IF ContentKeys[k] \in DOMAIN result.f /\ result.f[ContentKeys[k]] # <<>>
         THEN result.f[ContentKeys[k]]
    ELSE FirstKey(result, k + 1)

\* The if / elif / elif chain that determines content.
PageContent(result) ==
    IF HasAttr(result, "extracted_content") THEN GetAttr(result, "extracted_content")
    ELSE IF HasAttr(result, "content") THEN GetAttr(result, "content")
    ELSE IF IsDict(result) THEN FirstKey(result, 1)
    ELSE <<>>

\* The body of the for loop for result number i (from 0): what it does with
\* the page.
PageDecision(i, result) ==
    LET page_url == PageUrl(i, result)
        content == PageContent(result)
    IN IF content = <<>>
       THEN [idx |-> i, status |-> "no_content", page_url |-> page_url, body |-> <<>>]
       ELSE IF ~should_include_page(page_url)
       THEN [idx |-> i, status |-> "filtered", page_url |-> page_url, body |-> content]
       ELSE IF Strip(content) = <<>>
       THEN [idx |-> i, status |-> "empty", page_url |-> page_url, body |-> <<>>]
       ELSE [idx |-> i, status |-> "kept", page_url |-> page_url, body |-> Strip(content)]

Decisions(rs) == [i \in 1..Len(rs) |-> PageDecision(i - 1, rs[i])]

\* pages_content: the kept pages in crawl order, each with its marker.
PagesContent(ds) ==
    LET keptOnes == SelectSeq(ds, LAMBDA d : d.status = "kept")
    IN [k \in 1..Len(keptOnes) |->
          [marker |-> IF keptOnes[k].idx = 0 THEN "MAIN PAGE" ELSE "SUBPAGE",
           idx |-> keptOnes[k].idx,
           page_url |-> keptOnes[k].page_url,
           body |-> keptOnes[k].body]]

\* ---- the page results checked
AllowedUrl == Site \o <<"/", "v", "e", "r", "a", "n", "s", "t", "a", "l", "t", "u", "n", "g", "e", "n", "/", "m", "a", "r", "k", "t">>
DeniedUrl == Site \o <<"/", "i", "m", "p", "r", "e", "s", "s", "u", "m">>
OtherUrl == Site \o <<"/", "n", "e", "w", "s">>

UrlFields == { <<>>, [n \in {"url"} |-> AllowedUrl], [n \in {"url"} |-> DeniedUrl],
               [n \in {"url"} |-> OtherUrl] }

Extracted == <<"E">>
Raw == <<"R">>
Blank == <<" ", "\n">>

BodyFields == {
    [n \in {"extracted_content", "content"} |->
        IF n = "extracted_content" THEN Extracted ELSE Raw],
    [n \in {"extracted_content", "content"} |->
        IF n = "extracted_content" THEN <<>> ELSE Raw],
    [n \in {"content"} |-> Raw],
    [n \in {"extracted_content", "content"} |-> <<>>],
    <<>>,
    [n \in {"extracted_content", "content"} |->
        IF n = "extracted_content" THEN Blank ELSE Raw],
    [n \in {"markdown"} |-> <<"M">>] }

Merge(f, g) == [n \in DOMAIN f \cup DOMAIN g |-> IF n \in DOMAIN f THEN f[n] ELSE g[n]]

\* <<>> as a set of fields is the function with no key.
NoFields == [n \in {} |-> <<>>]
Fields(x) == IF x = <<>> THEN NoFields ELSE x

PageResults ==
    {[kind |-> k, f |-> Merge(Fields(u), Fields(b))] :
        k \in {"obj", "dict"}, u \in UrlFields, b \in BodyFields}

InitSiteSpec ==
    /\ InitStore /\ InitCrawl /\ query = None /\ InitFilter /\ InitParse
    /\ results \in UNION {[1..n -> PageResults] : n \in 0..MaxPages}
    /\ decisions = None
    /\ pages_content = None

\* The whole function for the results that crawler.arun returned.
crawl_site ==
    /\ decisions = None
    /\ decisions' = Some(IF results = <<>> THEN <<>> ELSE Decisions(results))
    /\ pages_content' =
          Some(IF results = <<>> THEN <<>> ELSE PagesContent(Decisions(results)))
    /\ UNCHANGED <<results, storeVars, crawlVars, query, filterVars, parseVars>>

NextSite == crawl_site

SpecSite == InitSiteSpec /\ [][NextSite]_vars

\* The page's own URL and its two body fields, as the crawler reported them.
OwnUrl(result) == IF "url" \in DOMAIN result.f THEN result.f["url"] ELSE <<>>
Field(result, name) == IF name \in DOMAIN result.f THEN result.f[name] ELSE <<>>

InReturnedText(i) ==
    \A pcs \in pages_content : \E k \in 1..Len(pcs) : pcs[k].idx = i - 1

\* C5: a page with a non-empty body is in the returned text exactly when the
\* filter accepts the page's own URL, for an object with a url attribute as
\* for a dictionary with a url key.
C5_FilterOnOwnUrl ==
    \A ds \in decisions : \A i \in 1..Len(results) :
       (ds[i].status # "no_content" /\ Strip(PageContent(results[i])) # <<>>) =>
          (InReturnedText(i) <=> should_include_page(OwnUrl(results[i])))

\* C6: the body is the extracted field when that is non-empty and the raw
\* content field otherwise; a page is skipped for having no body only when
\* both fields are empty or absent.
C6_BodyFallback ==
    \A ds \in decisions : \A i \in 1..Len(results) :
       LET extracted == Field(results[i], "extracted_content")
           raw == Field(results[i], "content")
           expected == IF extracted # <<>> THEN extracted ELSE raw
       IN /\ ds[i].status = "no_content" => (extracted = <<>> /\ raw = <<>>)
          /\ (expected # <<>> /\ ds[i].status \in {"filtered", "kept"}) =>
                Strip(ds[i].body) = Strip(expected)

(***************************************************************************)
(* parse_openai_response (app.py)                                          *)
(* The response is a sequence of tokens: the markers, the labels, words,   *)
(* blanks and line ends. The variable text holds it line by line.          *)
(***************************************************************************)
MaxItems == 4

SourceUrls == {"https://x.de/veranstaltungen"}

StartLine == <<"EVENT_START">>
EndLine == <<"EVENT_END">>

\* The lines a response is made of.
Items == {
    StartLine,
    EndLine,
    <<"TITEL:", " ", "A">>,
    <<" ", "TITEL:", "B", " ">>,
    <<"TITEL:", " ">>,
    <<"TITEL:", " ", "C", " ", "TITEL:", "D">>,
    <<"DATUM:", " ", "24.12.2025">>,
    <<"DATUM:", " ", "TBD">>,
    <<"DATUM:", " ", "06.01.26-08.01.26">>,
    <<"ORT:", " ", "Halle">>,
    <<"ORT:", " ", "Unbekannt">> }

\* "\n".join(lines)
RECURSIVE JoinLines(_)
JoinLines(ls) ==
    IF ls = <<>> THEN <<>>
    ELSE IF Len(ls) = 1 THEN ls[1]
    ELSE ls[1] \o <<"\n">> \o JoinLines(Tail(ls))

\* str.split(sep): the pieces between the occurrences of sep.
RECURSIVE Split(_, _)
Split(s, sep) ==
    IF \A i \in 1..Len(s) : s[i] # sep THEN <<s>>
    ELSE LET i == CHOOSE k \in 1..Len(s) :
                     s[k] = sep /\ \A m \in 1..(k - 1) : s[m] # sep
         IN <<SubSeq(s, 1, i - 1)>> \o Split(SubSeq(s, i + 1, Len(s)), sep)

\* str.replace(label, ""): every occurrence goes.
Remove(s, label) == SelectSeq(s, LAMBDA t : t # label)

\* str.startswith(label)
StartsWith(s, label) == s # <<>> /\ s[1] = label

\* str.lower() on the words of the responses.
LowerWord(t) ==
    CASE t = "Unbekannt" -> "unbekannt"
      [] t = "Halle" -> "halle"
      [] t = "TBD" -> "tbd"
      [] t = "A" -> "a"
      [] t = "B" -> "b"
      [] t = "C" -> "c"
      [] t = "D" -> "d"
      [] OTHER -> t

LowerWords(s) == [i \in 1..Len(s) |-> LowerWord(s[i])]

Unknown == <<"unbekannt">>

\* "-" in date_str and "." in date_str, and date_str.split("-")[0]
HasDash(s) == \E i \in 1..Len(s) : s[i] = "06.01.26-08.01.26"
HasDot(s) == \E i \in 1..Len(s) : s[i] \in {"24.12.2025", "06.01.26-08.01.26"}
BeforeDash(s) ==
    LET i == CHOOSE k \in 1..Len(s) :
                 s[k] = "06.01.26-08.01.26" /\ \A m \in 1..(k - 1) : s[m] # s[k]
    IN SubSeq(s, 1, i - 1) \o <<"06.01.26">>

\* datetime.strptime(date_str, "%d.%m.%Y") and (..., "%d.%m.%y"): the date, or
\* None when it raises.
Strptime4(s) == IF s = <<"24.12.2025">> THEN Some("2025-12-24") ELSE None
Strptime2(s) == IF s = <<"06.01.26">> THEN Some("2026-01-06") ELSE None

\* The DATUM: branch: the date the line sets, None when it sets none.
DateOfLine(line) ==
    LET date_str == Strip(Remove(line, "DATUM:"))
    IN IF LowerWords(date_str) = Unknown THEN None
       ELSE LET start == IF HasDash(date_str) /\ HasDot(date_str)
                         THEN Strip(BeforeDash(date_str)) ELSE date_str
            IN IF Strptime4(start) # None THEN Strptime4(start)
               ELSE Strptime2(start)

\* event["title"] = ...
KeepFirstTitle(event, title) ==
    IF event.title = None THEN [event EXCEPT !.title = Some(title)] ELSE event
SetTitle(event, title) == [event EXCEPT !.title = Some(title)]

\* if "title" in event and event["title"]
HasTitleKey(event) == event.title # None
HasTitle(event) == event.title # None /\ event.title # Some(<<>>)

\* The loop over the lines of a block, from line k on.
RECURSIVE ParseLines(_, _, _)
ParseLines(event, lines, k) ==
    IF k > Len(lines) THEN event
    ELSE LET line == Strip(lines[k])
             next ==
               IF StartsWith(line, "TITEL:")
               THEN SetTitle(event, Strip(Remove(line, "TITEL:")))
               ELSE IF StartsWith(line, "DATUM:")
               THEN (IF DateOfLine(line) # None
                     THEN [event EXCEPT !.date = DateOfLine(line)] ELSE event)
               ELSE IF StartsWith(line, "ORT:")
               THEN (LET location == Strip(Remove(line, "ORT:"))
                     IN IF LowerWords(location) # Unknown
                        THEN [event EXCEPT !.location = location] ELSE event)
               ELSE event
         IN ParseLines(next, lines, k + 1)

\* One block: the events it adds to the list, none or one.
ParseBlock(lines, url_) ==
    LET event == ParseLines([url |-> url_, location |-> Unknown,
                             date |-> None, title |-> None], lines, 1)
    IN IF HasTitle(event)
       THEN <<[title |-> CHOOSE t \in event.title : TRUE, date |-> event.date,
               location |-> event.location, url |-> event.url]>>
       ELSE <<>>

\* The loop over text.split("EVENT_START"), from piece k on.
RECURSIVE ParseBlocks(_, _, _)
ParseBlocks(blocks, k, url_) ==
    IF k > Len(blocks) THEN <<>>
    ELSE LET block == blocks[k]
         IN (IF \A i \in 1..Len(block) : block[i] # "EVENT_END" THEN <<>>
             ELSE ParseBlock(Split(Strip(Split(block, "EVENT_END")[1]), "\n"), url_))
            \o ParseBlocks(blocks, k + 1, url_)

parse_openai_response(text_, url_) ==
    ParseBlocks(Split(text_, "EVENT_START"), 1, url_)

InitParseSpec ==
    /\ InitStore /\ InitCrawl /\ query = None /\ InitFilter /\ InitSite
    /\ text \in UNION {[1..n -> Items] : n \in 0..MaxItems}
    /\ source_url \in SourceUrls
    /\ parsed = None

ParseResponse ==
    /\ parsed = None
    /\ parsed' = Some(parse_openai_response(JoinLines(text), source_url))
    /\ UNCHANGED <<text, source_url, storeVars, crawlVars, query, filterVars, siteVars>>

NextParse == ParseResponse

SpecParse == InitParseSpec /\ [][NextParse]_vars

(***************************************************************************)
(* Properties of the event store, the query endpoint and the crawl cycle   *)
(***************************************************************************)
\* C1: with save_events and clear_events calls that do not overlap, no two
\* stored events share both title and source_url; a call whose events are all
\* stored already inserts nothing, and a pair that occurs several times in one
\* batch is stored once.
C1_NoDuplicateEvents ==
    /\ ~HasDuplicates(store)
    /\ \A s \in Sessions :
         pc[s] = "returned" =>
           /\ ((\A i \in 1..Len(batch[s]) : Existing(before[s], batch[s][i]))
                 => store = before[s])
           /\ \A i \in 1..Len(batch[s]) :
                 Cardinality({r \in store :
                    SameKey(r, batch[s][i].title, batch[s][i].url)}) = 1

\* A call returned whose first event was stored by an earlier call and whose
\* second and third events are one new pair, given twice.
C1_Witness ==
    \E s \in Sessions :
       /\ pc[s] = "returned"
       /\ Len(batch[s]) = 3
       /\ Existing(before[s], batch[s][1])
       /\ batch[s][2] = batch[s][3]
       /\ ~Existing(before[s], batch[s][2])
       /\ Cardinality(store) = Cardinality(before[s]) + 1

\* C2: when a save_events call raises, whatever statement failed, the table
\* holds exactly the rows it held when the call began: nothing of the batch is
\* stored, nothing stays pending, and the caller gets the exception.
C2_AllOrNothing ==
    \A s \in Sessions :
       pc[s] = "raised" =>
          /\ store = before[s]
          /\ flushed[s] = {}
          /\ pending[s] = <<>>
          /\ lock # s

\* A call raised after its first event, a new one, had been added.
C2_Witness ==
    \E s \in Sessions :
       /\ pc[s] = "raised"
       /\ idx[s] >= 2
       /\ batch[s][1].title # NULL
       /\ ~Existing(before[s], batch[s][1])
       /\ store = before[s]

Failed(outcome) == outcome \in {"crawl_error", "insufficient", "extract_error"}
AllFailed == \A i \in 1..Len(outcomes) : Failed(outcomes[i])
Recorded == \E i \in 1..Len(outcomes) : outcomes[i] \in {"crawl_error", "insufficient"}

\* Every seed is visited once, in the order of START_URLS, whatever happened
\* at the seeds before it; the cycle ends with a summary, or with the
\* exception of save_events.
CycleVisitsAll ==
    /\ cpc = "loop" => visited = SubSeq(START_URLS, 1, seedIdx - 1)
    /\ cpc \in {"saving", "returned", "raised"} => visited = START_URLS
    /\ Len(outcomes) = Len(visited)
    /\ cpc = "returned" =>
          /\ summary # None
          /\ \A r \in summary : r.urls_crawled = NumSeeds
                                /\ r.events_found = Len(all_events)
    /\ cpc = "raised" => summary = None /\ all_events # <<>>
    /\ cpc = "saving" => all_events # <<>>

\* C3 as stated: when every seed failed, the summary has events_found = 0 and
\* a non-null list of errors.
C3_AsStated ==
    /\ CycleVisitsAll
    /\ (cpc = "returned" /\ AllFailed) =>
          \A r \in summary : r.events_found = 0 /\ r.errors # None

\* C3 amended: when every seed failed, the summary has events_found = 0; its
\* errors are a non-null list exactly when some seed had a crawl error or
\* insufficient content, and null when every seed failed in the extraction.
C3_Amended ==
    /\ CycleVisitsAll
    /\ (cpc = "returned" /\ AllFailed) =>
          \A r \in summary :
             /\ r.events_found = 0
             /\ (r.errors # None) <=> Recorded
             /\ (r.errors # None) => (r.errors = Some(errors))

\* The cycle returned after a crawl error at the first seed and a failed
\* extraction at the second.
C3_Witness ==
    /\ cpc = "returned"
    /\ Len(outcomes) >= 2
    /\ outcomes[1] = "crawl_error"
    /\ outcomes[2] = "extract_error"
    /\ AllFailed

\* C7: a search_events call that loads no event replies with the fixed
\* guidance text and sends no request to the text-generation API; a request
\* is sent only when at least one event was loaded.
C7_NoRequestWhenEmpty ==
    \A q \in query :
       /\ q.loaded = 0 => q.reply = GUIDANCE /\ ~q.requested
       /\ q.requested => q.loaded > 0
       /\ q.loaded = Cardinality(store)

\* A question was asked of an empty store.
C7_Witness ==
    /\ store = {}
    /\ query = Some([loaded |-> 0, requested |-> FALSE, reply |-> GUIDANCE])

\* C10: two stored rows with the same title and source_url exist only after
\* save_events calls overlapped; two overlapping calls for the same pair can
\* both pass the lookup and both insert.
C10_DuplicatesOnlyByOverlap == HasDuplicates(store) => overlapped

\* Two calls for the same single event both returned and the table holds the
\* event twice.
C10_Witness ==
    /\ pc[1] = "returned" /\ pc[2] = "returned"
    /\ Len(batch[1]) = 1 /\ batch[1] = batch[2]
    /\ before[1] = {} /\ before[2] = {}
    /\ Cardinality(store) = 2
    /\ HasDuplicates(store)

(***************************************************************************)
(* Properties of the response parser                                       *)
(***************************************************************************)
Min(S) == CHOOSE m \in S : \A x \in S : m <= x

\* The blocks of the response, by its lines: line j closes a block when it is
\* the first EVENT_END line after the last EVENT_START line before it (after
\* the beginning of the text when there is none).
BlockStart(j) ==
    LET starts == {k \in 1..(j - 1) : text[k] = StartLine}
    IN IF starts = {} THEN 0 ELSE Max(starts)

ClosesBlock(j) ==
    /\ text[j] = EndLine
    /\ \A k \in (BlockStart(j) + 1)..(j - 1) : text[k] # EndLine

BlockLines(j) == SubSeq(text, BlockStart(j) + 1, j - 1)

BlockEnds == {j \in 1..Len(text) : ClosesBlock(j)}

EventsOf(j) == ParseBlock(BlockLines(j), source_url)

RECURSIVE EventsFrom(_)
EventsFrom(ends) ==
    IF ends = {} THEN <<>>
    ELSE EventsOf(Min(ends)) \o EventsFrom(ends \ {Min(ends)})

\* The lines of a block that carry a label, and the text such a line gives.
Labelled(ls, label) == {k \in 1..Len(ls) : StartsWith(Strip(ls[k]), label)}
LineValue(line, label) == Strip(SelectSeq(line, LAMBDA t : t # label))
LocationOfLine(line) ==
    IF LowerWords(LineValue(line, "ORT:")) = Unknown THEN Unknown
    ELSE LineValue(line, "ORT:")

\* C8: the parser returns, block by block, an event only for a block with a
\* non-empty title: none for a block without TITEL: line, and for a block that
\* is one TITEL: line the event with that title, location "unbekannt", no date
\* and the given source URL.
C8_TitleDecidesBlock ==
    /\ \A evs \in parsed :
          /\ evs = EventsFrom(BlockEnds)
          /\ \A n \in 1..Len(evs) : evs[n].title # <<>> /\ evs[n].url = source_url
    /\ parsed # None => \A j \in BlockEnds :
          LET ls == BlockLines(j)
              titles == Labelled(ls, "TITEL:")
          IN /\ EventsOf(j) # <<>> =>
                  \E k \in titles : LineValue(ls[k], "TITEL:") # <<>>
             /\ titles = {} => EventsOf(j) = <<>>
             /\ (Len(ls) = 1 /\ titles = {1} /\ LineValue(ls[1], "TITEL:") # <<>>) =>
                  EventsOf(j) = <<[title |-> LineValue(ls[1], "TITEL:"),
                                   location |-> Unknown, date |-> None,
                                   url |-> source_url]>>

\* A response of one block that is one TITEL: line was parsed into one event.
C8_Witness ==
    /\ Len(text) = 3
    /\ text[1] = StartLine /\ text[3] = EndLine
    /\ Labelled(<<text[2]>>, "TITEL:") = {1}
    /\ \E evs \in parsed :
          /\ Len(evs) = 1
          /\ evs[1].title = LineValue(text[2], "TITEL:")
          /\ evs[1].location = Unknown /\ evs[1].date = None

\* The DATUM: lines of a block that give a date, and its ORT: lines that give
\* a location other than "unbekannt".
Dated(ls) == {k \in Labelled(ls, "DATUM:") : DateOfLine(ls[k]) # None}
Located(ls) == {k \in Labelled(ls, "ORT:") : LocationOfLine(ls[k]) # Unknown}

\* C9 as stated: for each label the first line with it decides the title, the
\* date and the location of the event, and whether the block is kept.
C9_FirstLineWins ==
    /\ \A evs \in parsed : evs = EventsFrom(BlockEnds)
    /\ parsed # None => \A j \in {e \in BlockEnds : BlockStart(e) >= 1} :
          LET ls == BlockLines(j)
              titles == Labelled(ls, "TITEL:")
              dates == Labelled(ls, "DATUM:")
              places == Labelled(ls, "ORT:")
          IN /\ EventsOf(j) # <<>> <=>
                  (titles # {} /\ LineValue(ls[Min(titles)], "TITEL:") # <<>>)
             /\ EventsOf(j) # <<>> =>
                  /\ EventsOf(j)[1].title = LineValue(ls[Min(titles)], "TITEL:")
                  /\ EventsOf(j)[1].date =
                        (IF dates = {} THEN None ELSE DateOfLine(ls[Min(dates)]))
                  /\ EventsOf(j)[1].location =
                        (IF places = {} THEN Unknown ELSE LocationOfLine(ls[Min(places)]))

\* C9 amended: the last TITEL: line decides the title and whether the block
\* is kept; the date is that of the last DATUM: line that gives a date, the
\* location that of the last ORT: line that is not "unbekannt".
C9_LastLineWins ==
    /\ \A evs \in parsed : evs = EventsFrom(BlockEnds)
    /\ parsed # None => \A j \in BlockEnds :
          LET ls == BlockLines(j)
              titles == Labelled(ls, "TITEL:")
          IN /\ EventsOf(j) # <<>> <=>
                  (titles # {} /\ LineValue(ls[Max(titles)], "TITEL:") # <<>>)
             /\ EventsOf(j) # <<>> =>
                  /\ Len(EventsOf(j)) = 1
                  /\ EventsOf(j)[1].title = LineValue(ls[Max(titles)], "TITEL:")
                  /\ EventsOf(j)[1].date =
                        (IF Dated(ls) = {} THEN None ELSE DateOfLine(ls[Max(Dated(ls))]))
                  /\ EventsOf(j)[1].location =
                        (IF Located(ls) = {} THEN Unknown
                         ELSE LocationOfLine(ls[Max(Located(ls))]))

\* A block with two TITEL: lines of different titles was parsed: the event has
\* the title of the second.
C9_Witness ==
    /\ Len(text) = 4
    /\ text[1] = StartLine /\ text[4] = EndLine
    /\ Labelled(<<text[2], text[3]>>, "TITEL:") = {1, 2}
    /\ LineValue(text[2], "TITEL:") # <<>>
    /\ LineValue(text[3], "TITEL:") # <<>>
    /\ LineValue(text[2], "TITEL:") # LineValue(text[3], "TITEL:")
    /\ \E evs \in parsed :
          Len(evs) = 1 /\ evs[1].title = LineValue(text[3], "TITEL:")

====
